---- MODULE Spec2Model ----
(***************************************************************************)
(* Container lifecycle (start / stop / refresh / play / pause / destroy),  *)
(* frame scheduling and density auto-fill of src/src/Core/Container.ts.    *)
(*                                                                         *)
(* A synchronous method is one action.  An async method (start, refresh)   *)
(* is one action per synchronous segment: from the call, or from the       *)
(* resumption of an await, up to the next await or the return.             *)
(***************************************************************************)
EXTENDS Integers, Sequences, FiniteSets, TLC

(* ------------------------------- bounds -------------------------------- *)

\* start() calls that may be suspended at an await at the same time
MaxProcs == 1
\* animation-frame requests that may be outstanding at the same time
MaxPending == 2
\* plugins the plugin list may hold (it only outgrows the available plugins
\* when start() is called again after destroy())
MaxPlugins == 6
\* particles the collection may hold (caps particles.push)
MaxCount == 7
\* properties a data object given to PolygonMask.load may supply
MaxFields == 3

(* --------------------------- collaborators ----------------------------- *)

\* `drawAnimationFrame?: number` holding no handle
Undefined == 0

\* handles window.requestAnimationFrame may return; a handle is reused only
\* when it is neither outstanding nor still stored in drawAnimationFrame
Handles == 1 .. (MaxPending + 2)

\* The globally registered plugins, in registration order, and the optional
\* methods each one defines (IPlugin: every hook is optional).
\* Plugin 1 defines startAsync and start, plugin 2 neither, plugin 3 start.
Registered == <<1, 2, 3>>
HasStartAsync == {1}
HasStart == {1, 3}
HasPlay == {1, 3}
HasPause == {1, 2}
HasStop == {1, 3}
HasInit == {2, 3}

\* options.particles.shape.type (an array of two shape types) and the
\* optional methods of the drawer CanvasUtils.getShapeDrawer returns for each
ShapeTypes == <<1, 2>>
DrawerHasInit == {1}
DrawerHasDestroy == {2}

(* ------------------------------- state --------------------------------- *)

VARIABLES
    started,            \* Container.started
    destroyed,          \* Container.destroyed
    paused,             \* Container.paused
    pageHidden,         \* Container.pageHidden
    plugins,            \* Container.plugins
    drawers,            \* keys of Container.drawers, in insertion order
    drawAnimationFrame, \* Container.drawAnimationFrame
    count,              \* Container.particles.count
    pending,            \* window: frame requests neither fired nor cancelled
    options,            \* Container.options (number, density, plugins)
    canvas,             \* Container.canvas (element, width, height)
    retina,             \* Container.retina (isRetina, pixelRatio)
    pushRoundsUp,       \* Particles.push rounds a fractional quantity up
    mask,               \* a PolygonMask options object
    loaded,             \* the data the last PolygonMask.load was given
    procs,              \* start() calls suspended at an await
    op,                 \* the last call: its name and argument
    pre,                \* the flags as they were when the last call began
    calls,              \* hooks and collaborators invoked by the last call
    err                 \* the last call threw

cvars == <<started, destroyed, paused, pageHidden, plugins, drawers,
           drawAnimationFrame, count, pending>>
envvars == <<options, canvas, retina, pushRoundsUp, mask, loaded>>
vars == <<started, destroyed, paused, pageHidden, plugins, drawers,
          drawAnimationFrame, count, pending, options, canvas, retina,
          pushRoundsUp, mask, loaded, procs, op, pre, calls, err>>

\* The container and the window as one value, threaded through the methods.
Cur ==
    [started |-> started, destroyed |-> destroyed, paused |-> paused,
     pageHidden |-> pageHidden, plugins |-> plugins, drawers |-> drawers,
     drawAnimationFrame |-> drawAnimationFrame, count |-> count,
     pending |-> pending, calls |-> <<>>, err |-> FALSE]

\* What `pre` keeps of a container value.
Snapshot(s) ==
    [started |-> s.started, destroyed |-> s.destroyed, paused |-> s.paused]

Commit(s) ==
    /\ started' = s.started
    /\ destroyed' = s.destroyed
    /\ paused' = s.paused
    /\ pageHidden' = s.pageHidden
    /\ plugins' = s.plugins
    /\ drawers' = s.drawers
    /\ drawAnimationFrame' = s.drawAnimationFrame
    /\ count' = s.count
    /\ pending' = s.pending
    /\ calls' = s.calls
    /\ err' = s.err
    /\ pre' = Snapshot(Cur)

(* ------------------------------ helpers -------------------------------- *)

Call(s, hook, who) == [s EXCEPT !.calls = Append(@, <<hook, who>>)]

Throw(s) == [s EXCEPT !.err = TRUE]

\* `for (const plugin of list) if (plugin.hook) plugin.hook()`
RECURSIVE Dispatch(_, _, _, _, _)
Dispatch(s, list, i, has, hook) ==
    IF i > Len(list) THEN s
    ELSE Dispatch(IF list[i] \in has THEN Call(s, hook, list[i]) ELSE s,
                  list, i + 1, has, hook)

Min(S) == CHOOSE x \in S : \A y \in S : x <= y

(* ------------------------- window frame requests ------------------------ *)

\* Container.requestFrame: window.customRequestAnimationFrame(callback)
RequestFrame(s) ==
    LET h == Min(Handles \ (s.pending \cup {s.drawAnimationFrame}))
    IN  [s EXCEPT !.pending = @ \cup {h}, !.drawAnimationFrame = h]

\* Container.cancelAnimation: cancelling a handle that already fired or was
\* already cancelled does nothing
CancelAnimation(s, handle) == [s EXCEPT !.pending = @ \ {handle}]

(* ---------------------------- play / pause ----------------------------- *)

\* mutant: play() that notifies the plugins whether it was paused or not
PlayAlwaysUpdate(s, force) ==
    LET s1 == IF s.paused THEN [s EXCEPT !.paused = FALSE] ELSE s
        s2 == Call(Dispatch(s1, s1.plugins, 1, HasPlay, "play"),
                   "lastFrameTime", 0)
    IN  RequestFrame(s2)

\* Container.play(force?); `this.lastFrameTime = performance.now()` is
\* recorded among the calls, after the plugins' play hooks
Play(s, force) ==
    LET needsUpdate == s.paused \/ force
        s1 == IF s.paused THEN [s EXCEPT !.paused = FALSE] ELSE s
        s2 == IF needsUpdate
              THEN Call(Dispatch(s1, s1.plugins, 1, HasPlay, "play"),
                        "lastFrameTime", 0)
              ELSE s1
    IN  RequestFrame(s2)

\* mutant: pause() that sets paused also while the page is hidden
PauseWhateverPage(s) ==
    LET s1 == IF s.drawAnimationFrame # Undefined
              THEN [CancelAnimation(s, s.drawAnimationFrame)
                        EXCEPT !.drawAnimationFrame = Undefined]
              ELSE s
    IN  IF ~s1.paused
        THEN [Dispatch(s1, s1.plugins, 1, HasPause, "pause")
                  EXCEPT !.paused = TRUE]
        ELSE s1

\* Container.pause()
Pause(s) ==
    LET s1 == IF s.drawAnimationFrame # Undefined
              THEN [CancelAnimation(s, s.drawAnimationFrame)
                        EXCEPT !.drawAnimationFrame = Undefined]
              ELSE s
    IN  IF ~s1.paused
        THEN LET s2 == Dispatch(s1, s1.plugins, 1, HasPause, "pause")
             IN  IF ~s2.pageHidden THEN [s2 EXCEPT !.paused = TRUE] ELSE s2
        ELSE s1

\* Container.getAnimationStatus()
GetAnimationStatus(s) == ~s.paused

(* --------------------------- particle count ---------------------------- *)

\* particlesNumber = area * optParticlesNumber / density as the exact
\* fraction DensityNum / DensityDen (area = width * height / 1000, divided
\* by pixelRatio * 2 on a retina surface)
DensityNum == canvas.width * canvas.height * options.number
DensityDen ==
    1000 * options.densityArea
         * (IF retina.isRetina THEN retina.pixelRatio * 2 ELSE 1)

\* Particles.push(q) for q = qnum / DensityDen > 0: q new particles; a
\* fractional q is rounded up or down (pushRoundsUp)
ParticlesPush(s, qnum) ==
    LET whole == qnum \div DensityDen
        added == IF qnum % DensityDen = 0 \/ ~pushRoundsUp THEN whole ELSE whole + 1
    IN  [Call(s, "push", qnum) EXCEPT !.count = @ + added]

\* Particles.removeQuantity(q) for q = qnum / DensityDen > 0: removes up to
\* q particles, never more than q and never below zero
ParticlesRemoveQuantity(s, qnum) ==
    LET whole == qnum \div DensityDen
        removed == IF whole > s.count THEN s.count ELSE whole
    IN  [Call(s, "removeQuantity", qnum) EXCEPT !.count = @ - removed]

\* mutant: densityAutoParticles() without its guard
DensityNoGuard(s) ==
    LET got == s.count * DensityDen
    IN  IF got < DensityNum THEN ParticlesPush(s, DensityNum - got)
        ELSE IF got > DensityNum THEN ParticlesRemoveQuantity(s, got - DensityNum)
        ELSE s

\* Container.densityAutoParticles(); canvas and options are deleted by
\* destroy(), so reading canvas.element then throws
DensityAutoParticles(s) ==
    IF s.destroyed THEN Throw(s)
    ELSE IF ~(canvas.element /\ options.densityEnable) THEN s
    ELSE LET got == s.count * DensityDen
         IN  IF got < DensityNum
             THEN ParticlesPush(s, DensityNum - got)
             ELSE IF got > DensityNum
                  THEN ParticlesRemoveQuantity(s, got - DensityNum)
                  ELSE s

(* ------------------------------ stop ----------------------------------- *)

\* mutant: stop() that leaves the plugin list as it is
StopKeepPlugins(s) ==
    IF ~s.started THEN s
    ELSE LET s1 == [s EXCEPT !.started = FALSE]
         IN  IF s1.destroyed THEN Throw(s1)
             ELSE LET s2 == Pause(s1)
                      s3 == Call([s2 EXCEPT !.count = 0], "clear", 0)
                  IN  Dispatch(s3, s3.plugins, 1, HasStop, "stop")

\* Container.stop(); destroy() deletes eventListeners, so on a destroyed
\* container removeListeners() throws right after started is cleared
Stop(s) ==
    IF ~s.started THEN s
    ELSE LET s1 == [s EXCEPT !.started = FALSE]
         IN  IF s1.destroyed THEN Throw(s1)
             ELSE LET s2 == Pause(s1)
                      s3 == Call([s2 EXCEPT !.count = 0], "clear", 0)
                      s4 == Dispatch(s3, s3.plugins, 1, HasStop, "stop")
                  IN  [s4 EXCEPT !.plugins = <<>>]

(* ----------------------------- destroy --------------------------------- *)

\* Container.destroy(); a second call finds retina deleted and throws at
\* retina.reset()
Destroy(s) ==
    LET s1 == Stop(s)
    IN  IF s1.err THEN s1
        ELSE IF s1.destroyed THEN Throw(s1)
        ELSE LET s2 == Dispatch(s1, s1.drawers, 1, DrawerHasDestroy,
                                "drawerDestroy")
             IN  [s2 EXCEPT !.drawers = <<>>, !.destroyed = TRUE]

(* ------------------------------ start ---------------------------------- *)

\* A start() call: the plugin array it iterates (pl), the position it is
\* suspended at (phase, i or k), the drawer keys it enumerates (dk), and the
\* start hooks it has dispatched so far (log).
Idle == [phase |-> "idle", pl |-> <<>>, i |-> 0, dk |-> <<>>, k |-> 0,
         log |-> <<>>]

\* Plugins.getAvailablePlugins(container): the registered plugins whose
\* applicability predicate accepts the container's options (options.plugins
\* is the set of plugins the options ask for), in registration order
RECURSIVE Filter(_, _)
Filter(list, keep) ==
    IF list = <<>> THEN <<>>
    ELSE (IF Head(list) \in keep THEN <<Head(list)>> ELSE <<>>)
         \o Filter(Tail(list), keep)
Range(list) == {list[x] : x \in DOMAIN list}
GetAvailablePlugins == Filter(Registered, options.plugins)

\* `this.drawers[type] = ...` for each configured type: a key already
\* present keeps its place
RECURSIVE AddKeys(_, _)
AddKeys(keys, types) ==
    IF types = <<>> THEN keys
    ELSE AddKeys(IF Head(types) \in Range(keys) THEN keys
                 ELSE Append(keys, Head(types)), Tail(types))

\* Container.init(): retina.init(), canvas.init(), particles.init() (the
\* collection is filled to options.particles.number.value), the plugins'
\* init hooks, densityAutoParticles()
InitContainer(s) ==
    LET s0 == Call(Call(s, "retinaInit", 0), "canvasInit", 0)
        s1 == Call([s0 EXCEPT !.count = options.number], "particlesInit", 0)
        s2 == Dispatch(s1, s1.plugins, 1, HasInit, "init")
    IN  DensityAutoParticles(s2)

\* mutant: start() ending with play() before init()
FinishPlayFirst(s, p) ==
    IF s.destroyed THEN [s |-> Throw(s), p |-> Idle]
    ELSE [s |-> InitContainer(Play(s, FALSE)), p |-> Idle]

\* the end of start(): init() and play(); retina is deleted by destroy()
Finish(s, p) ==
    IF s.destroyed THEN [s |-> Throw(s), p |-> Idle]
    ELSE [s |-> Play(InitContainer(s), FALSE), p |-> Idle]

\* `for (const type in this.drawers) { ... await drawer.init(this) }` from
\* the k-th key on; destroy() replaces this.drawers by {}, so the next
\* this.drawers[type] is undefined and reading its init throws
RECURSIVE DrawerLoop(_, _, _)
DrawerLoop(s, p, k) ==
    IF s.destroyed THEN [s |-> Throw(s), p |-> Idle]
    ELSE IF k > Len(p.dk) THEN Finish(s, p)
    ELSE IF p.dk[k] \in DrawerHasInit
         THEN [s |-> Call(s, "drawerInit", p.dk[k]),
               p |-> [p EXCEPT !.phase = "drawer", !.k = k]]
         ELSE DrawerLoop(s, p, k + 1)

\* shape drawers are resolved; options is deleted by destroy()
DrawerPhase(s, p) ==
    IF s.destroyed THEN [s |-> Throw(s), p |-> Idle]
    ELSE LET s1 == [s EXCEPT !.drawers = AddKeys(@, ShapeTypes)]
         IN  DrawerLoop(s1, [p EXCEPT !.dk = s1.drawers], 1)

\* mutant: start() preferring a plugin's start over its startAsync
StartHookSyncFirst(plugin) ==
    IF plugin \in HasStart THEN "start"
    ELSE IF plugin \in HasStartAsync THEN "startAsync"
    ELSE "none"

\* which start hook of a plugin start() invokes
StartHook(plugin) ==
    IF plugin \in HasStartAsync THEN "startAsync"
    ELSE IF plugin \in HasStart THEN "start"
    ELSE "none"

\* `for (const plugin of this.plugins) { ... }` of start() from the i-th
\* plugin on, over the array the loop began with
RECURSIVE PluginLoop(_, _, _)
PluginLoop(s, p, i) ==
    IF i > Len(p.pl) THEN DrawerPhase(s, p)
    ELSE IF StartHook(p.pl[i]) = "startAsync"
         THEN [s |-> Call(s, "startAsync", p.pl[i]),
               p |-> [p EXCEPT !.phase = "plugin", !.i = i,
                               !.log = Append(@, <<"startAsync", i>>)]]
    ELSE IF StartHook(p.pl[i]) = "start"
         THEN PluginLoop(Call(s, "start", p.pl[i]),
                         [p EXCEPT !.log = Append(@, <<"start", i>>)], i + 1)
    ELSE PluginLoop(s, p, i + 1)

\* mutant: start() without its `if (this.started) return`
StartCallNoGuard(s) ==
    LET s1 == [s EXCEPT !.plugins = @ \o GetAvailablePlugins,
                        !.started = TRUE]
    IN  IF s1.destroyed THEN [s |-> Throw(s1), p |-> Idle]
        ELSE PluginLoop(s1, [Idle EXCEPT !.pl = s1.plugins], 1)

\* Container.start() from the call to its first await (or its return);
\* eventListeners is deleted by destroy(), so addListeners() then throws
StartCall(s) ==
    IF s.started THEN [s |-> s, p |-> Idle]
    ELSE LET s1 == [s EXCEPT !.plugins = @ \o GetAvailablePlugins,
                             !.started = TRUE]
         IN  IF s1.destroyed THEN [s |-> Throw(s1), p |-> Idle]
             ELSE PluginLoop(s1, [Idle EXCEPT !.pl = s1.plugins], 1)

\* Container.start() from the resumption of the await it is suspended at
Resume(s, p) ==
    IF p.phase = "plugin"
    THEN PluginLoop(s, [p EXCEPT !.log = Append(@, <<"resolved", p.i>>)],
                    p.i + 1)
    ELSE DrawerLoop(s, p, p.k + 1)

\* Container.refresh() to the first await of its start()
RefreshCall(s) ==
    LET s1 == Stop(s)
    IN  IF s1.err THEN [s |-> s1, p |-> Idle] ELSE StartCall(s1)

\* FrameManager.nextFrame, the callback of a frame request: it requests the
\* next frame while the container is started and not paused
NextFrame(s) ==
    IF ~s.destroyed /\ s.started /\ ~s.paused THEN Play(s, FALSE) ELSE s

(* --------------------------- polygon mask ------------------------------ *)

\* An optional value (`x?: T`, a property a data object may omit) is the
\* empty sequence when undefined and <<v>> when it holds v.
Absent == <<>>
Defined(x) == Len(x) > 0

\* Type.none and another member of the Type enum
TypeNone == "none"
TypeInline == "inline"

\* new Draw(), new Inline(), new Move(), new LocalSvg(): the sub-options
\* with their defaults (one property each)
DrawNew == [enable |-> FALSE]
InlineNew == [arrangement |-> "one-per-point"]
MoveNew == [radius |-> 10]
LocalSvgNew == [string |-> FALSE, path |-> Absent]

\* Draw.load, Inline.load, Move.load, LocalSvg.load: a partial merge; an
\* undefined data object or an undefined property leaves the value as it is
DrawLoad(draw, d) ==
    IF ~Defined(d) THEN draw
    ELSE IF Defined(d[1].enable) THEN [draw EXCEPT !.enable = d[1].enable[1]]
    ELSE draw
InlineLoad(inline, d) ==
    IF ~Defined(d) THEN inline
    ELSE IF Defined(d[1].arrangement)
         THEN [inline EXCEPT !.arrangement = d[1].arrangement[1]]
    ELSE inline
MoveLoad(move, d) ==
    IF ~Defined(d) THEN move
    ELSE IF Defined(d[1].radius) THEN [move EXCEPT !.radius = d[1].radius[1]]
    ELSE move
LocalSvgLoad(svg, d) ==
    IF Defined(d.path) THEN [svg EXCEPT !.path = d.path] ELSE svg

\* new PolygonMask()
PolygonMaskNew ==
    [draw |-> DrawNew, enable |-> FALSE, inline |-> InlineNew,
     move |-> MoveNew, scale |-> 1, type |-> TypeNone, url |-> Absent,
     data |-> Absent, position |-> Absent]

\* `get inlineArrangement()`
InlineArrangement(m) == m.inline.arrangement

\* mutant: the deprecated inlineArrangement preferred over inline
InlineDataAliasFirst(data) ==
    IF Defined(data.inlineArrangement)
    THEN <<[arrangement |-> data.inlineArrangement]>>
    ELSE data.inline

\* `data.inline ?? { arrangement: data.inlineArrangement }`
InlineData(data) ==
    IF Defined(data.inline) THEN data.inline
    ELSE <<[arrangement |-> data.inlineArrangement]>>

\* mutant: an optional property overwritten also when the data omits it
AssignOptionalAlways(cur, d) == d

\* `if (data.x !== undefined) this.x = data.x` for the optional properties
\* url and position (position through deepExtend({}, data.position), a copy)
AssignOptional(cur, d) == IF Defined(d) THEN d ELSE cur

\* `if (data.x !== undefined) this.x = data.x` for scale and type
Assign(cur, d) == IF Defined(d) THEN d[1] ELSE cur

\* `this.data = data.data` for a string, a fresh LocalSvg loaded with
\* data.data otherwise
DataLoad(cur, d) ==
    IF ~Defined(d) THEN cur
    ELSE IF d[1].string THEN d
    ELSE <<LocalSvgLoad(LocalSvgNew, d[1])>>

\* mutant: enable computed before the type of this load is assigned
LoadEnableFirst(m, data) ==
    IF ~data.defined THEN m
    ELSE LET m1 == [m EXCEPT !.draw = DrawLoad(@, data.draw)]
             inline == InlineData(data)
             m2 == IF Defined(inline)
                   THEN [m1 EXCEPT !.inline = InlineLoad(@, inline)]
                   ELSE m1
             m3 == [m2 EXCEPT !.move = MoveLoad(@, data.move)]
             m4 == [m3 EXCEPT !.scale = Assign(@, data.scale)]
             m5 == [m4 EXCEPT !.enable = IF Defined(data.enable)
                                         THEN data.enable[1]
                                         ELSE m4.type # TypeNone]
             m6 == [m5 EXCEPT !.type = Assign(@, data.type)]
             m7 == [m6 EXCEPT !.url = AssignOptional(@, data.url)]
             m8 == [m7 EXCEPT !.data = DataLoad(@, data.data)]
         IN  [m8 EXCEPT !.position = AssignOptional(@, data.position)]

\* PolygonMask.load(data?)
Load(m, data) ==
    IF ~data.defined THEN m
    ELSE LET m1 == [m EXCEPT !.draw = DrawLoad(@, data.draw)]
             inline == InlineData(data)
             m2 == IF Defined(inline)
                   THEN [m1 EXCEPT !.inline = InlineLoad(@, inline)]
                   ELSE m1
             m3 == [m2 EXCEPT !.move = MoveLoad(@, data.move)]
             m4 == [m3 EXCEPT !.scale = Assign(@, data.scale)]
             m5 == [m4 EXCEPT !.type = Assign(@, data.type)]
             m6 == [m5 EXCEPT !.enable = IF Defined(data.enable)
                                         THEN data.enable[1]
                                         ELSE m5.type # TypeNone]
             m7 == [m6 EXCEPT !.url = AssignOptional(@, data.url)]
             m8 == [m7 EXCEPT !.data = DataLoad(@, data.data)]
         IN  [m8 EXCEPT !.position = AssignOptional(@, data.position)]

\* The data objects load() is given: each property of `supplied` holds one
\* of its values, every other property is omitted
Fields ==
    {"draw", "inline", "inlineArrangement", "move", "scale", "type",
     "enable", "url", "data", "position"}
Values(f) ==
    CASE f = "draw" -> {<<[enable |-> <<TRUE>>]>>}
      [] f = "inline" -> {<<[arrangement |-> Absent]>>,
                          <<[arrangement |-> <<"per-point">>]>>}
      [] f = "inlineArrangement" -> {<<"equidistant">>}
      [] f = "move" -> {<<[radius |-> <<20>>]>>}
      [] f = "scale" -> {<<2>>}
      [] f = "type" -> {<<TypeNone>>, <<TypeInline>>}
      [] f = "enable" -> {<<TRUE>>, <<FALSE>>}
      [] f = "url" -> {<<"mask.svg">>}
      [] f = "data" -> {<<[string |-> TRUE, path |-> <<"M0 0">>]>>,
                        <<[string |-> FALSE, path |-> <<"M0 0">>]>>}
      [] f = "position" -> {<<[x |-> 50, y |-> 50]>>}
Property(f, supplied) == IF f \in supplied THEN Values(f) ELSE {Absent}
Properties(supplied) ==
    [draw : Property("draw", supplied),
     inline : Property("inline", supplied),
     inlineArrangement : Property("inlineArrangement", supplied),
     move : Property("move", supplied),
     scale : Property("scale", supplied),
     type : Property("type", supplied),
     enable : Property("enable", supplied),
     url : Property("url", supplied),
     data : Property("data", supplied),
     position : Property("position", supplied),
     defined : {TRUE}]
Supplied(data) == {f \in Fields : Defined(data[f])}

\* load(undefined), load(); also `loaded` before the first load
NoData ==
    [draw |-> Absent, inline |-> Absent, inlineArrangement |-> Absent,
     move |-> Absent, scale |-> Absent, type |-> Absent, enable |-> Absent,
     url |-> Absent, data |-> Absent, position |-> Absent,
     defined |-> FALSE]

\* The masks a sequence of loads of these data objects leaves: every field
\* at its default or at a loaded value (enable may be supplied with any type)
Loaded(f) == {Absent} \cup Values(f)
Masks ==
    [draw : {DrawLoad(DrawNew, d) : d \in Loaded("draw")},
     enable : BOOLEAN,
     inline : {InlineLoad(InlineNew, d) : d \in Loaded("inline")}
              \cup {InlineLoad(InlineNew, <<[arrangement |-> a]>>) :
                        a \in Loaded("inlineArrangement")},
     move : {MoveLoad(MoveNew, d) : d \in Loaded("move")},
     scale : {Assign(PolygonMaskNew.scale, d) : d \in Loaded("scale")},
     type : {Assign(PolygonMaskNew.type, d) : d \in Loaded("type")},
     url : {AssignOptional(Absent, d) : d \in Loaded("url")},
     data : {DataLoad(Absent, d) : d \in Loaded("data")},
     position : {AssignOptional(Absent, d) : d \in Loaded("position")}]

\* the sets of at most MaxFields properties
RECURSIVE AtMost(_, _)
AtMost(S, n) ==
    IF n = 0 THEN {{}}
    ELSE AtMost(S, n - 1)
         \cup {T \cup {f} : T \in AtMost(S, n - 1), f \in S}

(* ------------------------------ actions -------------------------------- *)

\* the bounds: a call is explored when its outcome r = [s, p] keeps the
\* outstanding requests, the suspended calls and the plugin list within them
CanRequest(s) == Cardinality(s.pending) <= MaxPending
CanSuspend(p) == p.phase = "idle" \/ Len(procs) < MaxProcs
CanGrow(s) == Len(s.plugins) <= MaxPlugins
Within(r) == CanRequest(r.s) /\ CanSuspend(r.p) /\ CanGrow(r.s)

DoPlay ==
    /\ \E force \in BOOLEAN :
        /\ CanRequest(Play(Cur, force))
        /\ Commit(Play(Cur, force))
        /\ op' = IF force THEN "playForce" ELSE "play"
    /\ UNCHANGED <<envvars, procs>>

DoPause ==
    /\ Commit(Pause(Cur))
    /\ op' = "pause"
    /\ UNCHANGED <<envvars, procs>>

DoStop ==
    /\ Commit(Stop(Cur))
    /\ op' = "stop"
    /\ UNCHANGED <<envvars, procs>>

DoDestroy ==
    /\ Commit(Destroy(Cur))
    /\ op' = "destroy"
    /\ UNCHANGED <<envvars, procs>>

\* a call that suspends joins the suspended calls
Suspended(p) == IF p.phase = "idle" THEN <<>> ELSE <<p>>

DoStart ==
    /\ LET r == StartCall(Cur)
       IN  Within(r) /\ Commit(r.s) /\ procs' = procs \o Suspended(r.p)
    /\ op' = "start"
    /\ UNCHANGED envvars

DoRefresh ==
    /\ LET r == RefreshCall(Cur)
       IN  Within(r) /\ Commit(r.s) /\ procs' = procs \o Suspended(r.p)
    /\ op' = "refresh"
    /\ UNCHANGED envvars

\* the promise a suspended start() awaits settles
DoResume ==
    /\ \E x \in DOMAIN procs :
        LET r == Resume(Cur, procs[x])
        IN  /\ CanRequest(r.s)
            /\ Commit(r.s)
            /\ procs' = SubSeq(procs, 1, x - 1) \o Suspended(r.p)
                        \o SubSeq(procs, x + 1, Len(procs))
    /\ op' = "resume"
    /\ UNCHANGED envvars

\* the window runs the callback of an outstanding frame request
FrameFire ==
    /\ \E h \in pending :
        Commit(NextFrame([Cur EXCEPT !.pending = @ \ {h}]))
    /\ op' = "frame"
    /\ UNCHANGED <<envvars, procs>>

\* the page becomes hidden or visible (public field pageHidden)
SetPageHidden ==
    /\ \E hidden \in BOOLEAN :
        /\ hidden # pageHidden
        /\ Commit([Cur EXCEPT !.pageHidden = hidden])
    /\ op' = "pageHidden"
    /\ UNCHANGED <<envvars, procs>>

DoDensityAutoParticles ==
    /\ Commit(DensityAutoParticles(Cur))
    /\ op' = "densityAutoParticles"
    /\ UNCHANGED <<envvars, procs>>

\* particles.push(n) and particles.removeQuantity(n) with a whole n
DoPush ==
    /\ \E n \in 1 .. MaxCount :
        /\ count + n <= MaxCount
        /\ Commit(ParticlesPush(Cur, n * DensityDen))
    /\ op' = "push"
    /\ UNCHANGED <<envvars, procs>>

DoRemoveQuantity ==
    /\ \E n \in 1 .. MaxCount :
        /\ n <= count + 1
        /\ Commit(ParticlesRemoveQuantity(Cur, n * DensityDen))
    /\ op' = "removeQuantity"
    /\ UNCHANGED <<envvars, procs>>

\* mask.load(data), applied once to the mask under study
DoLoad ==
    /\ op = "new"
    /\ \/ mask' = Load(mask, NoData) /\ loaded' = NoData
       \/ \E supplied \in AtMost(Fields, MaxFields) :
            \E data \in Properties(supplied) :
                /\ mask' = Load(mask, data)
                /\ loaded' = data
    /\ op' = "load"
    /\ UNCHANGED <<cvars, options, canvas, retina, pushRoundsUp, procs, pre,
                   calls, err>>

(* --------------------------- specifications ---------------------------- *)

\* the state the constructor leaves
Constructed ==
    /\ started = FALSE
    /\ destroyed = FALSE
    /\ paused = TRUE
    /\ pageHidden = FALSE
    /\ plugins = <<>>
    /\ drawers = <<>>
    /\ drawAnimationFrame = Undefined
    /\ pending = {}
    /\ procs = <<>>
    /\ op = "new"
    /\ calls = <<>>
    /\ err = FALSE

\* Lifecycle: three particles configured, density auto-fill on with a
\* target of 1.5 particles.
Init ==
    /\ Constructed
    /\ count = 0
    /\ options \in [number : {3}, densityEnable : {TRUE}, densityArea : {2},
                    plugins : SUBSET Range(Registered)]
    /\ canvas = [element |-> TRUE, width |-> 100, height |-> 10]
    /\ retina = [isRetina |-> FALSE, pixelRatio |-> 1]
    /\ pushRoundsUp = TRUE
    /\ mask = PolygonMaskNew
    /\ loaded = NoData
    /\ pre = Snapshot(Cur)

Next ==
    \/ DoPlay
    \/ DoPause
    \/ DoStop
    \/ DoDestroy
    \/ DoStart
    \/ DoRefresh
    \/ DoResume
    \/ FrameFire
    \/ SetPageHidden

Spec == Init /\ [][Next]_vars

\* Density auto-fill on a constructed container, over its inputs.
InitDensity ==
    /\ Constructed
    /\ count \in 0 .. MaxCount
    /\ options \in [number : {2, 3}, densityEnable : BOOLEAN,
                    densityArea : {1, 2}, plugins : {{}}]
    /\ canvas \in [element : BOOLEAN, width : {100}, height : {10, 15, 20}]
    /\ retina \in {[isRetina |-> FALSE, pixelRatio |-> 1],
                   [isRetina |-> TRUE, pixelRatio |-> 1],
                   [isRetina |-> TRUE, pixelRatio |-> 2]}
    /\ pushRoundsUp \in BOOLEAN
    /\ mask = PolygonMaskNew
    /\ loaded = NoData
    /\ pre = Snapshot(Cur)

NextDensity ==
    \/ DoDensityAutoParticles
    \/ DoPush
    \/ DoRemoveQuantity

SpecDensity == InitDensity /\ [][NextDensity]_vars

\* PolygonMask.load on a mask as earlier loads left it, over its data objects.
InitMask ==
    /\ Constructed
    /\ count = 0
    /\ options = [number |-> 3, densityEnable |-> TRUE, densityArea |-> 2,
                  plugins |-> {}]
    /\ canvas = [element |-> TRUE, width |-> 100, height |-> 10]
    /\ retina = [isRetina |-> FALSE, pixelRatio |-> 1]
    /\ pushRoundsUp = TRUE
    /\ mask \in Masks
    /\ loaded = NoData
    /\ pre = Snapshot(Cur)

NextMask == DoLoad

SpecMask == InitMask /\ [][NextMask]_vars

(* ------------------------------- claims -------------------------------- *)

Invoked(hook) == {x \in DOMAIN calls : calls[x][1] = hook}

\* C1: started and destroyed are never both true (so a start() after
\* destroy() does not set started).  Violated: destroy(); start().
C1_StartedXorDestroyed == ~(started /\ destroyed)

\* C2: at most one animation-frame request is outstanding in every state
\* reached without destroy().  Violated: play(); play().
C2_AtMostOneFrame == ~destroyed => Cardinality(pending) <= 1

\* C3: pause() immediately followed by play(), with the page not hidden,
\* leaves the animation running and exactly one frame request outstanding.
\* Violated: play(); play(); pause(); play().
C3_PauseThenPlay ==
    [][(op = "pause" /\ op' \in {"play", "playForce"} /\ ~pageHidden
        /\ ~destroyed)
       => (GetAnimationStatus(Cur)' /\ Cardinality(pending') = 1)]_vars

\* C4: start() on a container that is already started changes nothing of the
\* container (plugins, flags, particle count, frame requests), invokes no
\* hook, suspends no new call and does not throw, also while an earlier
\* start() is suspended at an await.
C4_StartWhenStartedIsNoOp ==
    [][(op' = "start" /\ started)
       => (UNCHANGED <<cvars, procs>> /\ calls' = <<>> /\ ~err')]_vars

\* C4 witness: start() was called on a started container whose first
\* start() is still suspended at an await.
C4_Witness ==
    /\ op = "start" /\ pre.started /\ started /\ ~destroyed
    /\ procs # <<>> /\ Len(plugins) = 3 /\ calls = <<>>

\* C5: after stop() on a started container, started is false, the plugin
\* list is empty, the particles are cleared, no frame request is outstanding
\* and no error was raised.  Violated: start(); play(); stop() leaves the
\* frame start() or play() requested first outstanding (see C2).
C5_StopLeavesNothing ==
    (op = "stop" /\ pre.started /\ ~destroyed)
        => (~started /\ plugins = <<>> /\ count = 0 /\ pending = {} /\ ~err)

\* C6: destroy() on a destroyed container completes without error, invokes
\* no drawer destroy hook and leaves destroyed true, started false and no
\* drawers.  Violated: destroy(); destroy().
C6_DestroyTwice ==
    (op = "destroy" /\ pre.destroyed)
        => (~err /\ destroyed /\ ~started /\ drawers = <<>>
            /\ Invoked("drawerDestroy") = {})

\* C7: before any destroy(), the plugin list is exactly what
\* Plugins.getAvailablePlugins returns while the container is started (no
\* leftover, no duplicate) and empty while it is not; in particular right
\* after start(), refresh() and stop().
C7_PluginListFresh ==
    ~destroyed =>
        /\ plugins = IF started THEN GetAvailablePlugins ELSE <<>>
        /\ (op = "stop" => plugins = <<>>)
        /\ (op \in {"start", "refresh"} => plugins = GetAvailablePlugins)

\* C7 witness: a started container holding three plugins was refreshed.
C7_Witness ==
    /\ op = "refresh" /\ pre.started /\ ~destroyed /\ started
    /\ plugins = <<1, 2, 3>>

\* the start hooks start() dispatches for the plugins from..to of list
RECURSIVE ExpectedLog(_, _, _)
ExpectedLog(list, from, to) ==
    IF from > to THEN <<>>
    ELSE (IF list[from] \in HasStartAsync
          THEN << <<"startAsync", from>>, <<"resolved", from>> >>
          ELSE IF list[from] \in HasStart THEN << <<"start", from>> >>
          ELSE <<>>)
         \o ExpectedLog(list, from + 1, to)

\* C8: a start() call dispatches the start hooks in plugin-list order, one
\* after the other: startAsync alone for a plugin that has it, start for a
\* plugin that has only start, nothing for a plugin that has neither, and
\* nothing after a startAsync before it has resolved.
C8_StartHooksSequential ==
    \A x \in DOMAIN procs :
        LET p == procs[x]
        IN  /\ p.phase = "plugin" =>
                /\ p.pl[p.i] \in HasStartAsync
                /\ p.log = ExpectedLog(p.pl, 1, p.i - 1)
                           \o << <<"startAsync", p.i>> >>
            /\ p.phase = "drawer" => p.log = ExpectedLog(p.pl, 1, Len(p.pl))

\* C8 witness: a start() over <<1, 2, 3>> awaited plugin 1's startAsync,
\* skipped plugin 2 and called plugin 3's start.
C8_Witness ==
    \E x \in DOMAIN procs :
        /\ procs[x].phase = "drawer"
        /\ procs[x].pl = <<1, 2, 3>>
        /\ procs[x].log = << <<"startAsync", 1>>, <<"resolved", 1>>,
                             <<"start", 3>> >>

\* C9: with a canvas element and density enabled, densityAutoParticles()
\* leaves the particle count equal to area * number / density.  Violated
\* whenever that quotient is not a whole number (100 x 10 canvas, number 3,
\* density area 2: 1.5).
C9_DensityReachesTarget ==
    (op = "densityAutoParticles" /\ canvas.element /\ options.densityEnable)
        => count * DensityDen = DensityNum

C11_RefreshRestarts ==
    [][(op = "refresh" /\ pre.started /\ ~destroyed /\ Len(procs) = 1
        /\ op' = "resume" /\ procs' = <<>>)
       => (started' /\ GetAnimationStatus(Cur)' /\ ~err'
           /\ plugins' = GetAvailablePlugins
           /\ Cardinality(pending') = 1)]_vars


\* the fields of a PolygonMask, and whether a data object leaves one out
\* (inline is supplied by inline or by the deprecated inlineArrangement)
MaskFields ==
    {"draw", "inline", "move", "scale", "type", "enable", "url", "data",
     "position"}
Omits(data, f) ==
    /\ ~Defined(data[f])
    /\ f = "inline" => ~Defined(data.inlineArrangement)

\* C12 as stated: load(data) leaves every field data omits, enable included,
\* as it was, and load(undefined) changes nothing.  Violated: a mask of type
\* none that load({enable: true}) enabled is disabled by load({scale: 2}).
C12_EveryFieldKept ==
    [][op' = "load"
       => /\ \A f \in MaskFields : Omits(loaded', f) => mask'[f] = mask[f]
          /\ ~loaded'.defined => mask' = mask]_vars

\* C12: load(data) leaves every field other than enable that data omits as
\* it was; enable, when data omits it, becomes (type # none); and
\* load(undefined) changes nothing, enable included.
C12_LoadPartialMerge ==
    [][op' = "load"
       => /\ \A f \in MaskFields \ {"enable"} :
                Omits(loaded', f) => mask'[f] = mask[f]
          /\ (loaded'.defined /\ Omits(loaded', "enable"))
                => mask'.enable = (mask'.type # TypeNone)
          /\ ~loaded'.defined => mask' = mask]_vars

\* C12 witness: a load that omits scale, url and enable was applied to a
\* mask whose scale and url earlier loads had set; both are kept.
C12_Witness ==
    /\ op = "load" /\ loaded.defined
    /\ {"scale", "url", "enable"} \cap Supplied(loaded) = {}
    /\ mask.scale = 2 /\ Defined(mask.url)

\* C13: a load with inlineArrangement = X and no inline leaves
\* inline.arrangement = X; a load with both applies inline (its arrangement,
\* or none when inline omits it) and ignores inlineArrangement; a load with
\* neither leaves inline.arrangement as it was.
C13_AliasFallback ==
    [][(op' = "load" /\ loaded'.defined)
       => InlineArrangement(mask') =
            IF Defined(loaded'.inline)
            THEN IF Defined(loaded'.inline[1].arrangement)
                 THEN loaded'.inline[1].arrangement[1]
                 ELSE InlineArrangement(mask)
            ELSE IF Defined(loaded'.inlineArrangement)
                 THEN loaded'.inlineArrangement[1]
                 ELSE InlineArrangement(mask)]_vars

\* C13 witness: a load supplied inline and inlineArrangement, and the
\* arrangement of inline is the one the mask holds.
C13_Witness ==
    /\ op = "load"
    /\ Defined(loaded.inline) /\ Defined(loaded.inlineArrangement)
    /\ Defined(loaded.inline[1].arrangement)
    /\ InlineArrangement(mask) = loaded.inline[1].arrangement[1]
    /\ InlineArrangement(mask) # loaded.inlineArrangement[1]

\* C14: after a load that omits enable, enable = (type # none) for the type
\* this load results in (the supplied type, else the prior type); after a
\* load that supplies enable, enable is the supplied value.
C14_EnableFromResultingType ==
    [][(op' = "load" /\ loaded'.defined)
       => mask'.enable =
            IF Defined(loaded'.enable) THEN loaded'.enable[1]
            ELSE (IF Defined(loaded'.type) THEN loaded'.type[1]
                  ELSE mask.type) # TypeNone]_vars

\* C14 witness: a load supplied a type other than none and no enable, and
\* the mask is enabled.
C14_Witness ==
    /\ op = "load" /\ ~Defined(loaded.enable)
    /\ Defined(loaded.type) /\ loaded.type[1] # TypeNone
    /\ mask.enable


\* C15: after pause() no frame request is outstanding, also when play() was
\* called more than once before it.  Violated: play(); play(); pause()
\* leaves the request of the first play() outstanding (see C2).
C15_PauseCancelsEveryFrame == op = "pause" => pending = {}

\* <<hook, plugin>> for the plugins of list that define hook, in list order
RECURSIVE Hooks(_, _, _)
Hooks(list, has, hook) ==
    IF list = <<>> THEN <<>>
    ELSE (IF Head(list) \in has THEN << <<hook, Head(list)>> >> ELSE <<>>)
         \o Hooks(Tail(list), has, hook)

\* C16: pause() on a container that is not paused invokes the pause hook of
\* every plugin that has one, in list order, and nothing else, and sets
\* paused exactly when the page is not hidden; pause() on a paused container
\* invokes nothing and leaves paused true.
C16_PauseHooks ==
    [][op' = "pause"
       => IF ~paused
          THEN /\ calls' = Hooks(plugins, HasPause, "pause")
               /\ paused' = ~pageHidden
          ELSE calls' = <<>> /\ paused']_vars

\* C16 witness: pause() on a playing container with three plugins while the
\* page is hidden invoked the pause hooks of plugins 1 and 2 and left the
\* container not paused.
C16_Witness ==
    /\ op = "pause" /\ ~pre.paused /\ pageHidden /\ ~paused
    /\ plugins = <<1, 2, 3>>
    /\ calls = << <<"pause", 1>>, <<"pause", 2>> >>

\* C17: play(force) leaves paused false and requests one new frame, whose
\* handle it stores; when the container was paused or force is true it
\* invokes the play hooks in list order and then sets lastFrameTime;
\* otherwise it invokes nothing and leaves lastFrameTime alone.
C17_PlayAlwaysRequests ==
    [][op' \in {"play", "playForce"}
       => /\ ~paused'
          /\ drawAnimationFrame' \in Handles \ pending
          /\ pending' = pending \cup {drawAnimationFrame'}
          /\ calls' = IF paused \/ op' = "playForce"
                      THEN Hooks(plugins, HasPlay, "play")
                           \o << <<"lastFrameTime", 0>> >>
                      ELSE <<>>]_vars

\* C17 witness: play() without force on a playing container with three
\* plugins invoked nothing and left a second frame request outstanding.
C17_Witness ==
    /\ op = "play" /\ ~pre.paused /\ ~paused /\ calls = <<>>
    /\ plugins = <<1, 2, 3>> /\ Cardinality(pending) = 2
    /\ drawAnimationFrame \in pending

\* the place of a call in the order of start(): the start hooks and drawer
\* inits, then init() (retina, canvas, particles, the plugins' init hooks,
\* the density correction), then play()
Rank(hook) ==
    CASE hook \in {"start", "startAsync", "drawerInit"} -> 1
      [] hook = "retinaInit" -> 2
      [] hook = "canvasInit" -> 3
      [] hook = "particlesInit" -> 4
      [] hook = "init" -> 5
      [] hook \in {"push", "removeQuantity"} -> 6
      [] hook = "play" -> 7
      [] hook = "lastFrameTime" -> 8
InOrder(hook, list) ==
    \A x, y \in Invoked(hook) :
        x < y => \E i, j \in DOMAIN list :
                    /\ i < j /\ list[i] = calls[x][2] /\ list[j] = calls[y][2]

\* C18: a start() call that begins appends the available plugins and sets
\* started before it suspends; every segment of a start() call invokes the
\* start hooks and drawer inits before anything of init() and play(); and a
\* segment that runs an init hook or requests a frame is the last one (no
\* start hook or drawer init is pending), running retina, canvas and
\* particles init, the plugins' init hooks in list order, the density
\* correction and then play(), which requests the one frame.
C18_StartOrder ==
    [][(op' \in {"start", "resume"} /\ ~destroyed /\ ~(op' = "start" /\ started))
       => /\ op' = "start"
                => started' /\ plugins' = plugins \o GetAvailablePlugins
          /\ \A x, y \in DOMAIN calls' :
                x < y => Rank(calls'[x][1]) <= Rank(calls'[y][1])
          /\ IF Len(procs') > Len(procs)
                \/ (op' = "resume" /\ Len(procs') = Len(procs))
             THEN /\ pending' = pending
                  /\ \A x \in DOMAIN calls' : Rank(calls'[x][1]) = 1
                  /\ calls' # <<>>
                  /\ calls'[Len(calls')][1] \in {"startAsync", "drawerInit"}
             ELSE /\ Cardinality(pending' \ pending) = 1
                  /\ \A h \in {"retinaInit", "canvasInit", "particlesInit"} :
                        Cardinality(Invoked(h)') = 1
                  /\ InOrder("init", plugins)'
                  /\ {calls'[x][2] : x \in Invoked("init")'}
                        = Range(plugins') \cap HasInit
                  /\ Cardinality(Invoked("init")')
                        = Cardinality(Range(plugins') \cap HasInit)]_vars

\* C18 witness: the last segment of a start() over plugins <<1, 2, 3>>, after
\* the drawer's init resolved: init() with the init hooks of plugins 2 and
\* 3, the density correction, then play() with the play hooks of 1 and 3.
C18_Witness ==
    /\ op = "resume" /\ procs = <<>> /\ started /\ ~destroyed
    /\ plugins = <<1, 2, 3>>
    /\ calls = << <<"retinaInit", 0>>, <<"canvasInit", 0>>,
                  <<"particlesInit", 0>>, <<"init", 2>>, <<"init", 3>>,
                  <<"removeQuantity", 3000>>, <<"play", 1>>, <<"play", 3>>,
                  <<"lastFrameTime", 0>> >>
    /\ Cardinality(pending) = 1

\* C19: when stop() was called while a start() call is suspended, the
\* container is still stopped once that call has run to its end: started
\* false, not animated, no frame request outstanding, particles not
\* initialised again.  Violated: start() suspended at an await; stop(); the
\* await settles.
C19_StopDuringStart ==
    [][(op' = "resume" /\ procs' = <<>> /\ Len(procs) = 1 /\ ~started
        /\ ~destroyed)
       => (~started' /\ ~GetAnimationStatus(Cur)' /\ pending' = {}
           /\ Invoked("particlesInit")' = {})]_vars

\* C20: right after stop() on a started container getAnimationStatus() is
\* false, whatever pageHidden is.  Violated: start() run to its end; the
\* page becomes hidden; stop().
C20_StoppedIsPaused ==
    (op = "stop" /\ pre.started /\ ~destroyed) => ~GetAnimationStatus(Cur)

====
